---- MODULE Spec2Model ----
\* A model of raiden/transfer/architecture.py: the StateManager, its
\* constructor and its dispatch method, together with the Python values that
\* flow through them (State objects on a heap, StateChange and Event markers,
\* Iteration tuples).
\*
\* dispatch is modelled statement by statement (one action per source
\* statement), so that what an observer can read between two statements is a
\* state of the model.  Two StateManager objects exist: manager 1 is driven by
\* arbitrary callers, manager 2 is constructed from the same arguments and is
\* fed the recorded inputs of manager 1 (a replay).
EXTENDS Integers, Sequences, FiniteSets, TLC

\* ------------------------------------------------------------------ bounds

\* The content of a State object is a number in 0 .. Modulus - 1.
Modulus == 3
\* The number of finished dispatch calls of manager 1 whose record the caller
\* still holds for the replay on manager 2.
MaxPending == 1
\* The number of StateChanges of one run: dispatched one by one on manager 1
\* and handed together to the batch helper on manager 2.
BatchLen == 2

Managers == {1, 2}
Threads == {1, 2}
Addr == 1 .. 12

\* ------------------------------------------------------- python values

\* A reference-or-atom, as stored in an attribute or a local variable.
None == [tag |-> "None", addr |-> 0]
\* A value that is neither None nor an instance of State.
NotAState == [tag |-> "NotAState", addr |-> 0]
\* A reference to the State instance at heap address a.
StateRef(a) == [tag |-> "State", addr |-> a]

\* isinstance(x, State)
IsState(r) == r.tag = "State"
\* (mutant) isinstance(x, State): None is not accepted as a next state.
IsStateOrNone_StateOnly(r) == r.tag = "State"

\* isinstance(x, (State, types.NoneType))
IsStateOrNone(r) == r.tag \in {"State", "None"}

\* The StateChange instances the callers dispatch, by kind, and an argument
\* that is no StateChange.
StateChanges ==
    {"Inc", "Reset", "Clear", "Unknown", "BadState", "BadEvent",
     "NotIteration", "Raise"}
Arguments == StateChanges \cup {"NotAStateChange"}

\* (mutant) the argument of dispatch is not checked.
IsStateChange_Anything(x) == TRUE

\* isinstance(state_change, StateChange)
IsStateChange(x) == x \in StateChanges

\* The Event instances, and an element that is no Event.
Events == {"EvReceived", "EvApplied", "EvReset", "EvCleared"}

\* isinstance(e, Event)
IsEvent(e) == e \in Events

\* (mutant) the elements of the event sequence are not checked.
AllEvents_Unchecked(events) == TRUE

\* all(isinstance(e, Event) for e in events)
AllEvents(events) == \A i \in 1 .. Len(events) : IsEvent(events[i])

\* The values given as state_transition to the constructor.
Callables == {"apply_in_place", "apply_fresh"}
NonCallables == {"not_callable"}

\* callable(state_transition)
IsCallable(f) == f \in Callables

\* The value of what a reference denotes in heap h (value equality of states).
ValueOf(h, r) == [tag |-> r.tag, val |-> IF IsState(r) THEN h[r.addr] ELSE 0]

VARIABLES
    heap,              \* the content of the State instance at each address
    ctor,              \* per manager: outcome of StateManager(...)
    state_transition,  \* per manager: self.state_transition
    current_state,     \* per manager: self.current_state
    frame,             \* per thread: the locals of its dispatch call
    observed,          \* what the external reader last read from a manager
    initial,           \* the arguments the caller constructed manager 1 with
    journal            \* the caller's record of manager 1's finished calls

vars ==
    <<heap, ctor, state_transition, current_state, frame, observed, initial,
      journal>>

\* ------------------------------------------------------------- the heap

RefAddrs(r) == IF IsState(r) THEN {r.addr} ELSE {}

\* The addresses some attribute, local variable or caller still refers to.
Live(cs, fr, ob, ini) ==
    UNION {RefAddrs(cs[m]) : m \in Managers}
    \cup UNION {RefAddrs(fr[t].next_state) \cup RefAddrs(fr[t].pre)
                \cup RefAddrs(fr[t].iteration.new_state)
                \cup RefAddrs(fr[t].invoked_with.state) : t \in Threads}
    \cup RefAddrs(ob.ref) \cup RefAddrs(ini.ref)

\* The address a newly created object gets.
Fresh(live) == CHOOSE a \in Addr \ live : \A b \in Addr \ live : a <= b

Here == Live(current_state, frame, observed, initial)

\* Every place a reference is held in, in a fixed order.
Holders(cs, fr, ob, ini) ==
    <<ini.ref, cs[1], cs[2], ob.ref,
      fr[1].pre, fr[1].next_state, fr[1].iteration.new_state,
      fr[1].invoked_with.state,
      fr[2].pre, fr[2].next_state, fr[2].iteration.new_state,
      fr[2].invoked_with.state>>

\* The next state's heap and references.  Addresses are not observable by the
\* program, so the live objects are kept compacted: the objects are numbered
\* in the order their first holder comes in Holders, and what nothing refers
\* to is reclaimed.
Compact(h, cs, fr, ob, ini, live, moved) ==
    LET Move(r) == IF IsState(r) THEN StateRef(moved[r.addr]) ELSE r
        MoveFrame(f) ==
            [f EXCEPT !.pre = Move(@), !.next_state = Move(@),
                      !.iteration = [@ EXCEPT !.new_state = Move(@)],
                      !.invoked_with = [@ EXCEPT !.state = Move(@)]]
    IN
    /\ heap' = [k \in Addr |->
                  IF \E a \in live : moved[a] = k
                  THEN h[CHOOSE a \in live : moved[a] = k]
                  ELSE 0]
    /\ current_state' = [m \in Managers |-> Move(cs[m])]
    /\ frame' = [t \in Threads |-> MoveFrame(fr[t])]
    /\ observed' = [ob EXCEPT !.ref = Move(@)]
    /\ initial' = [ini EXCEPT !.ref = Move(@)]

Store(h, cs, fr, ob, ini) ==
    \E s \in {[h |-> h, cs |-> cs, fr |-> fr, ob |-> ob, ini |-> ini]} :
    \E held \in {Holders(s.cs, s.fr, s.ob, s.ini)} :
    \E live \in {Live(s.cs, s.fr, s.ob, s.ini)} :
    \E first \in {[a \in live |->
                    CHOOSE i \in 1 .. Len(held) :
                        /\ held[i] = StateRef(a)
                        /\ \A j \in 1 .. i - 1 : held[j] # StateRef(a)]} :
    \E moved \in {[a \in live |->
                    Cardinality({b \in live : first[b] <= first[a]})]} :
        Compact(s.h, s.cs, s.fr, s.ob, s.ini, live, moved)

\* (mutant) no copy is made: next_state = self.current_state
DeepCopy_NoCopy(h, a, r) == [ref |-> r, heap |-> h]

\* copy.deepcopy(r): a new instance with the same content for a State, the
\* value itself for None and for an atom.
DeepCopy(h, a, r) ==
    IF IsState(r)
    THEN [ref |-> StateRef(a), heap |-> [h EXCEPT ![a] = h[r.addr]]]
    ELSE [ref |-> r, heap |-> h]

\* ------------------------------------------------------ Iteration tuples

\* Iteration = namedtuple('Iteration', ('new_state', 'events'))
Iteration(new_state, events) ==
    [is_iteration |-> TRUE, new_state |-> new_state, events |-> events]
\* A plain 2-tuple, which is no Iteration.
PlainTuple(new_state, events) ==
    [is_iteration |-> FALSE, new_state |-> new_state, events |-> events]
\* The local `iteration` before the transition function has returned.
NoIteration == PlainTuple(None, <<>>)

\* (mutant) the type of the output is not checked
IsIteration_Anything(it) == TRUE

\* isinstance(iteration, Iteration)
IsIteration(it) == it.is_iteration

\* ------------------------------------------- the transition functions
\* The functions the callers register.  Both compute the same transition;
\* apply_in_place mutates the State it is given and returns it, apply_fresh
\* leaves its argument alone and returns a new instance.  Which of the possible
\* outputs is produced is selected by the kind of the StateChange.

Returned(h, it) == [raised |-> FALSE, value |-> it, heap |-> h]
Raised(h) == [raised |-> TRUE, value |-> NoIteration, heap |-> h]

Succ(v) == (v + 1) % Modulus

\* The counter of State s advanced by one: in place, or in a new instance at a.
Advance(fn, h, a, s) ==
    IF ~IsState(s) THEN [heap |-> h, state |-> s]
    ELSE IF fn = "apply_in_place"
    THEN [heap |-> [h EXCEPT ![s.addr] = Succ(@)], state |-> s]
    ELSE [heap |-> [h EXCEPT ![a] = Succ(h[s.addr])], state |-> StateRef(a)]

\* state_transition(next_state, state_change) for a callable fn.
Transition(fn, h, a, s, c) ==
    LET adv == Advance(fn, h, a, s) IN
    CASE c = "Inc" ->
           IF IsState(s)
           THEN Returned(adv.heap,
                         Iteration(adv.state, <<"EvReceived", "EvApplied">>))
           ELSE Returned(h, Iteration(s, <<>>))
      [] c = "Reset" ->
           Returned([h EXCEPT ![a] = 0], Iteration(StateRef(a), <<"EvReset">>))
      [] c = "Clear" ->
           Returned(h, Iteration(None, <<"EvCleared">>))
      [] c = "BadState" ->
           Returned(h, Iteration(NotAState, <<"EvReceived">>))
      [] c = "BadEvent" ->
           Returned(adv.heap,
                    Iteration(adv.state, <<"EvReceived", "NotAnEvent">>))
      [] c = "NotIteration" ->
           Returned(adv.heap, PlainTuple(adv.state, <<"EvReceived">>))
      [] c = "Raise" ->
           IF fn = "apply_in_place" THEN Raised(adv.heap) ELSE Raised(h)
      [] OTHER ->
           Returned(h, Iteration(s, <<>>))

\* ------------------------------------------------------------ the state

IdleFrame ==
    [pc |-> "idle", mgr |-> 0, state_change |-> "", next_state |-> None,
     iteration |-> NoIteration, events |-> <<>>, outcome |-> "",
     returned |-> <<>>, pre |-> None,
     pre_value |-> [tag |-> "None", val |-> 0], invoked |-> 0,
     invoked_with |-> [state |-> None, change |-> ""], writes |-> 0,
     raced |-> FALSE]

NoRead == [mgr |-> 0, ref |-> None, during |-> 0]

Init ==
    /\ heap = [a \in Addr |-> 0]
    /\ ctor = [m \in Managers |-> "unconstructed"]
    /\ state_transition = [m \in Managers |-> "unset"]
    /\ current_state = [m \in Managers |-> None]
    /\ frame = [t \in Threads |-> IdleFrame]
    /\ observed = NoRead
    /\ initial = [fn |-> "unset", ref |-> None]
    /\ journal = <<>>

\* ------------------------------------------------------- construction

\* (mutant) the constructor does not check callable(state_transition).
NewStateManager_Unchecked(fn, ref) ==
    [outcome |-> "ok", state_transition |-> fn, current_state |-> ref]

\* StateManager.__init__(self, state_transition, current_state): the outcome
\* and the attributes it sets.
NewStateManager(fn, ref) ==
    IF ~IsCallable(fn)
    THEN [outcome |-> "ValueError", state_transition |-> "unset",
          current_state |-> None]
    ELSE [outcome |-> "ok", state_transition |-> fn, current_state |-> ref]

\* The caller constructs manager 1 with transition function fn and the
\* initial state ref (an object the caller created in heap h).
Construct1(fn, ref, h) ==
    LET new == NewStateManager(fn, ref) IN
    /\ ctor[1] # "ok"
    /\ ctor' = [ctor EXCEPT ![1] = new.outcome]
    /\ state_transition' = [state_transition EXCEPT ![1] = new.state_transition]
    /\ UNCHANGED journal
    /\ Store(h, [current_state EXCEPT ![1] = new.current_state], frame,
             observed, [fn |-> fn, ref |-> ref])

\* StateManager(fn, None), StateManager(fn, <not a State>),
\* StateManager(fn, <a new State, of content 0>)
ConstructManager ==
    \E fn \in Callables \cup NonCallables :
        \/ \E ref \in {None, NotAState} : Construct1(fn, ref, heap)
        \/ LET a == Fresh(Here) IN
           Construct1(fn, StateRef(a), [heap EXCEPT ![a] = 0])

\* The caller constructs manager 2 from the arguments of manager 1: the same
\* function and either the very same initial object (share) or an equal one.
ConstructReplica ==
    \E share \in BOOLEAN :
        LET c == IF share THEN [ref |-> initial.ref, heap |-> heap]
                 ELSE DeepCopy(heap, Fresh(Here), initial.ref)
            new == NewStateManager(initial.fn, c.ref)
        IN
        /\ ctor[1] = "ok"
        /\ ctor[2] # "ok"
        /\ ctor' = [ctor EXCEPT ![2] = new.outcome]
        /\ state_transition' =
              [state_transition EXCEPT ![2] = new.state_transition]
        /\ UNCHANGED journal
        /\ Store(c.heap, [current_state EXCEPT ![2] = new.current_state],
                 frame, observed, initial)

\* ------------------------------------------------------------ dispatch

\* The single-writer model: the dispatch calls are issued one after the other
\* by one owning execution context (thread 1), so a call starts only when no
\* call is under way.
Serialized(t, m) == t = 1 /\ \A u \in Threads : frame[u].pc = "idle"

\* What the caller may dispatch on manager m: anything on manager 1 (while it
\* can still record the call), the next recorded argument on manager 2.
MayDispatch(m, arg) ==
    IF m = 1 THEN Len(journal) < MaxPending
    ELSE journal # <<>> /\ arg = Head(journal).state_change

\* The call has ended with an exception: the locals are gone.
Fail(f, exception) ==
    [f EXCEPT !.pc = "done", !.outcome = exception, !.next_state = None,
              !.events = <<>>]

\* line 84: manager.dispatch(arg) is entered;
\* assert isinstance(state_change, StateChange)
Enter(t, m, arg) ==
    LET entered == [IdleFrame EXCEPT
                      !.mgr = m, !.state_change = arg,
                      !.pre = current_state[m],
                      !.pre_value = ValueOf(heap, current_state[m])]
    IN
    /\ frame[t].pc = "idle"
    /\ ctor[m] = "ok"
    /\ UNCHANGED <<ctor, state_transition, journal>>
    /\ Store(heap, current_state,
             [frame EXCEPT ![t] =
                IF IsStateChange(arg)
                THEN [entered EXCEPT !.pc = "copy"]
                ELSE Fail(entered, "AssertionError")],
             observed, initial)

\* A call of dispatch under the single-writer model.
Dispatch(t, m, arg) ==
    /\ Serialized(t, m)
    /\ MayDispatch(m, arg)
    /\ Enter(t, m, arg)

\* Another call on the same manager has copied current_state and has not
\* committed yet.
Racing(t) ==
    \E u \in Threads \ {t} :
        /\ frame[u].mgr = frame[t].mgr
        /\ frame[u].pc \in {"call", "assert_iteration", "commit"}

\* (mutant) the copy is also published:
\* self.current_state = next_state = deepcopy(self.current_state)
CopyState_Publishes(t) ==
    LET f == frame[t]
        c == DeepCopy(heap, Fresh(Here), current_state[f.mgr])
    IN
    /\ f.pc = "copy"
    /\ UNCHANGED <<ctor, state_transition, journal>>
    /\ Store(c.heap, [current_state EXCEPT ![f.mgr] = c.ref],
             [frame EXCEPT ![t] = [f EXCEPT !.pc = "call",
                                            !.next_state = c.ref,
                                            !.writes = @ + 1,
                                            !.raced = Racing(t)]],
             observed, initial)

\* line 88: next_state = deepcopy(self.current_state)
CopyState(t) ==
    LET f == frame[t]
        c == DeepCopy(heap, Fresh(Here), current_state[f.mgr])
    IN
    /\ f.pc = "copy"
    /\ UNCHANGED <<ctor, state_transition, journal>>
    /\ Store(c.heap, current_state,
             [frame EXCEPT ![t] = [f EXCEPT !.pc = "call",
                                            !.next_state = c.ref,
                                            !.raced = Racing(t)]],
             observed, initial)

\* (mutant) the function is given the manager's own object, not the copy:
\* iteration = self.state_transition(self.current_state, state_change)
CallTransition_PassesCurrent(t) ==
    LET f == frame[t]
        fn == state_transition[f.mgr]
        r == IF IsCallable(fn)
             THEN Transition(fn, heap, Fresh(Here), current_state[f.mgr],
                             f.state_change)
             ELSE Raised(heap)
        g == [f EXCEPT !.invoked = @ + 1,
                       !.invoked_with = [state |-> current_state[f.mgr],
                                         change |-> f.state_change]]
    IN
    /\ f.pc = "call"
    /\ UNCHANGED <<ctor, state_transition, journal>>
    /\ Store(r.heap, current_state,
             [frame EXCEPT ![t] =
                IF r.raised
                THEN Fail(g, IF IsCallable(fn) THEN "TransitionError"
                             ELSE "TypeError")
                ELSE [g EXCEPT !.pc = "assert_iteration",
                               !.iteration = r.value]],
             observed, initial)

\* (mutant) an exception of the function is caught and the call goes on with
\* the copy as it is: except Exception: iteration = Iteration(next_state, [])
CallTransition_Swallows(t) ==
    LET f == frame[t]
        fn == state_transition[f.mgr]
        r == IF IsCallable(fn)
             THEN Transition(fn, heap, Fresh(Here), f.next_state, f.state_change)
             ELSE Raised(heap)
        g == [f EXCEPT !.invoked = @ + 1,
                       !.invoked_with = [state |-> f.next_state,
                                         change |-> f.state_change]]
    IN
    /\ f.pc = "call"
    /\ UNCHANGED <<ctor, state_transition, journal>>
    /\ Store(r.heap, current_state,
             [frame EXCEPT ![t] =
                [g EXCEPT !.pc = "assert_iteration",
                          !.iteration = IF r.raised
                                        THEN Iteration(f.next_state, <<>>)
                                        ELSE r.value]],
             observed, initial)

\* lines 91-94: iteration = self.state_transition(next_state, state_change)
CallTransition(t) ==
    LET f == frame[t]
        fn == state_transition[f.mgr]
        r == IF IsCallable(fn)
             THEN Transition(fn, heap, Fresh(Here), f.next_state, f.state_change)
             ELSE Raised(heap)
        g == [f EXCEPT !.invoked = @ + 1,
                       !.invoked_with = [state |-> f.next_state,
                                         change |-> f.state_change]]
    IN
    /\ f.pc = "call"
    /\ UNCHANGED <<ctor, state_transition, journal>>
    /\ Store(r.heap, current_state,
             [frame EXCEPT ![t] =
                IF r.raised
                THEN Fail(g, IF IsCallable(fn) THEN "TransitionError"
                             ELSE "TypeError")
                ELSE [g EXCEPT !.pc = "assert_iteration",
                               !.iteration = r.value]],
             observed, initial)

\* line 96: assert isinstance(iteration, Iteration)
AssertIteration(t) ==
    LET f == frame[t] IN
    /\ f.pc = "assert_iteration"
    /\ UNCHANGED <<ctor, state_transition, journal>>
    /\ Store(heap, current_state,
             [frame EXCEPT ![t] =
                IF IsIteration(f.iteration)
                THEN [f EXCEPT !.pc = "commit"]
                ELSE Fail(f, "AssertionError")],
             observed, initial)

\* (mutant) the copy handed to the transition function is committed, not the
\* state the function returned: self.current_state = next_state
Commit_KeepsCopy(t) ==
    LET f == frame[t] IN
    /\ f.pc = "commit"
    /\ UNCHANGED <<ctor, state_transition, journal>>
    /\ Store(heap,
             [current_state EXCEPT ![f.mgr] = f.next_state],
             [frame EXCEPT ![t] = [f EXCEPT !.pc = "assert_state",
                                            !.events = f.iteration.events,
                                            !.writes = @ + 1]],
             observed, initial)

\* (mutant) the events are bound to the wrong attribute:
\* self.current_state, self.state_transition = iteration
Commit_Rebinds(t) ==
    LET f == frame[t] IN
    /\ f.pc = "commit"
    /\ state_transition' =
          [state_transition EXCEPT
              ![f.mgr] = CHOOSE fn \in NonCallables : TRUE]
    /\ UNCHANGED <<ctor, journal>>
    /\ Store(heap,
             [current_state EXCEPT ![f.mgr] = f.iteration.new_state],
             [frame EXCEPT ![t] = [f EXCEPT !.pc = "assert_state",
                                            !.writes = @ + 1]],
             observed, initial)

\* (mutant) the commit is a compare-and-set: a call that finds current_state
\* replaced since it began raises instead of overwriting it.
Commit_IfUnchanged(t) ==
    LET f == frame[t] IN
    /\ f.pc = "commit"
    /\ UNCHANGED <<ctor, state_transition, journal>>
    /\ Store(heap,
             IF current_state[f.mgr] = f.pre
             THEN [current_state EXCEPT ![f.mgr] = f.iteration.new_state]
             ELSE current_state,
             [frame EXCEPT ![t] =
                IF current_state[f.mgr] = f.pre
                THEN [f EXCEPT !.pc = "assert_state",
                               !.events = f.iteration.events,
                               !.writes = @ + 1]
                ELSE Fail(f, "ConflictError")],
             observed, initial)

\* line 98: self.current_state, events = iteration
Commit(t) ==
    LET f == frame[t] IN
    /\ f.pc = "commit"
    /\ UNCHANGED <<ctor, state_transition, journal>>
    /\ Store(heap,
             [current_state EXCEPT ![f.mgr] = f.iteration.new_state],
             [frame EXCEPT ![t] = [f EXCEPT !.pc = "assert_state",
                                            !.events = f.iteration.events,
                                            !.writes = @ + 1]],
             observed, initial)

\* line 100: assert isinstance(self.current_state, (State, types.NoneType))
AssertState(t) ==
    LET f == frame[t] IN
    /\ f.pc = "assert_state"
    /\ UNCHANGED <<ctor, state_transition, journal>>
    /\ Store(heap, current_state,
             [frame EXCEPT ![t] =
                IF IsStateOrNone(current_state[f.mgr])
                THEN [f EXCEPT !.pc = "assert_events"]
                ELSE Fail(f, "AssertionError")],
             observed, initial)

\* line 101: assert all(isinstance(e, Event) for e in events)
AssertEvents(t) ==
    LET f == frame[t] IN
    /\ f.pc = "assert_events"
    /\ UNCHANGED <<ctor, state_transition, journal>>
    /\ Store(heap, current_state,
             [frame EXCEPT ![t] =
                IF AllEvents(f.events)
                THEN [f EXCEPT !.pc = "return"]
                ELSE Fail(f, "AssertionError")],
             observed, initial)

\* line 103: return events
ReturnEvents(t) ==
    LET f == frame[t] IN
    /\ f.pc = "return"
    /\ UNCHANGED <<ctor, state_transition, journal>>
    /\ Store(heap, current_state,
             [frame EXCEPT ![t] = [f EXCEPT !.pc = "done",
                                            !.outcome = "ok",
                                            !.returned = f.events,
                                            !.next_state = None,
                                            !.events = <<>>]],
             observed, initial)

\* What the caller records of a finished call on manager 1.
Record(f) ==
    [state_change |-> f.state_change, outcome |-> f.outcome,
     returned |-> f.returned,
     current_state |-> ValueOf(heap, current_state[f.mgr])]

\* The caller has the result of its call (the events or the exception): it
\* records the call on manager 1, and drops the record a call on manager 2
\* has replayed.
Complete(t) ==
    LET f == frame[t] IN
    /\ f.pc = "done"
    /\ journal' = IF f.mgr = 1 THEN Append(journal, Record(f)) ELSE Tail(journal)
    /\ UNCHANGED <<ctor, state_transition>>
    /\ Store(heap, current_state, [frame EXCEPT ![t] = IdleFrame],
             IF observed.during = t THEN [observed EXCEPT !.during = 0]
             ELSE observed,
             initial)

\* The thread whose call on manager m is under way (0 when there is none).
Calling(m) ==
    IF \E t \in Threads : frame[t].mgr = m
    THEN CHOOSE t \in Threads : frame[t].mgr = m
    ELSE 0

\* An external reader reads manager.current_state.
Read(m) ==
    /\ ctor[m] = "ok"
    /\ UNCHANGED <<ctor, state_transition, journal>>
    /\ Store(heap, current_state, frame,
             [mgr |-> m, ref |-> current_state[m], during |-> Calling(m)],
             initial)

Next ==
    \/ ConstructManager
    \/ ConstructReplica
    \/ \E t \in Threads, m \in Managers, arg \in Arguments : Dispatch(t, m, arg)
    \/ \E t \in Threads : CopyState(t)
    \/ \E t \in Threads : CallTransition(t)
    \/ \E t \in Threads : AssertIteration(t)
    \/ \E t \in Threads : Commit(t)
    \/ \E t \in Threads : AssertState(t)
    \/ \E t \in Threads : AssertEvents(t)
    \/ \E t \in Threads : ReturnEvents(t)
    \/ \E t \in Threads : Complete(t)
    \/ Read(1)

Spec == Init /\ [][Next]_vars

\* ------------------------------------------- callers that mutate states
\* manager.current_state is a plain attribute (lines 69 and 98 store the very
\* object they are given), so what a reader gets from it, what the caller
\* passed to the constructor and what the manager holds can be one object.

\* The external reader mutates, in place, the State object it read.
MutateObserved ==
    /\ IsState(observed.ref)
    /\ heap' = [heap EXCEPT ![observed.ref.addr] = Succ(@)]
    /\ UNCHANGED <<ctor, state_transition, current_state, frame, observed,
                   initial, journal>>

\* The caller mutates, in place, the State object it constructed manager 1
\* with.
MutateInitial ==
    /\ IsState(initial.ref)
    /\ heap' = [heap EXCEPT ![initial.ref.addr] = Succ(@)]
    /\ UNCHANGED <<ctor, state_transition, current_state, frame, observed,
                   initial, journal>>

NextMutating == Next \/ MutateObserved \/ MutateInitial

\* The single-writer model with callers that do not keep to "State objects
\* must not be mutated in-place".
SpecMutating == Init /\ [][NextMutating]_vars

\* ------------------------------------------------------ concurrent callers
\* dispatch takes no lock.  Two threads call it: on manager 1 with nothing
\* that keeps the calls apart, on manager 2 under a lock of the callers that
\* is held for the length of a call.  The two calls of a round, from the first
\* call to the join, go to the same manager.

\* The StateChanges the two threads dispatch: one that advances the State, one
\* that replaces it, and one whose output violates the postcondition.
ConcurrentChanges == {"Inc", "Reset", "BadState"}

\* A thread calls dispatch on manager 1 whatever the other thread is doing.
DispatchRacing(t, arg) ==
    /\ \A u \in Threads : frame[u].mgr \in {0, 1}
    /\ Enter(t, 1, arg)

\* A thread calls dispatch on manager 2 once it holds the callers' lock.
DispatchLocked(t, arg) ==
    /\ \A u \in Threads : frame[u].mgr \in {0, 2}
    /\ \A u \in Threads : frame[u].mgr = 2 => frame[u].pc = "done"
    /\ Enter(t, 2, arg)

\* Both threads are joined and the results of their calls are taken.
Join ==
    /\ \A t \in Threads : frame[t].pc \in {"idle", "done"}
    /\ \E t \in Threads : frame[t].pc = "done"
    /\ UNCHANGED <<ctor, state_transition, journal>>
    /\ Store(heap, current_state, [t \in Threads |-> IdleFrame], observed,
             initial)

NextConcurrent ==
    \/ ConstructManager
    \/ ConstructReplica
    \/ \E t \in Threads, arg \in ConcurrentChanges : DispatchRacing(t, arg)
    \/ \E t \in Threads, arg \in ConcurrentChanges : DispatchLocked(t, arg)
    \/ \E t \in Threads : CopyState(t)
    \/ \E t \in Threads : CallTransition(t)
    \/ \E t \in Threads : AssertIteration(t)
    \/ \E t \in Threads : Commit(t)
    \/ \E t \in Threads : AssertState(t)
    \/ \E t \in Threads : AssertEvents(t)
    \/ \E t \in Threads : ReturnEvents(t)
    \/ Join

SpecConcurrent == Init /\ [][NextConcurrent]_vars

\* ------------------------------------------------------ the batch helper
\* A run: the caller dispatches up to BatchLen StateChanges on manager 1, one
\* call after the other, stopping at the first call that raises; then a batch
\* helper is given the same StateChanges for manager 2,
\*     for change in changes: events.extend(manager.dispatch(change))
\* and runs as one step.

\* One whole call manager.dispatch(c), lines 84-103, on a manager whose
\* function is fn and whose current_state is cur, in heap h; busy are the
\* addresses in use elsewhere.
DispatchOnce(fn, h, cur, c, busy) ==
    LET copy == DeepCopy(h, Fresh(busy \cup RefAddrs(cur)), cur)
        r == Transition(fn, copy.heap,
                        Fresh(busy \cup RefAddrs(cur) \cup RefAddrs(copy.ref)),
                        copy.ref, c)
        new == r.value.new_state
        raise(e, state) ==
            [heap |-> r.heap, state |-> state, outcome |-> e, events |-> <<>>]
    IN
    IF ~IsStateChange(c)
    THEN [heap |-> h, state |-> cur, outcome |-> "AssertionError",
          events |-> <<>>]
    ELSE IF r.raised THEN raise("TransitionError", cur)
    ELSE IF ~IsIteration(r.value) THEN raise("AssertionError", cur)
    ELSE IF ~IsStateOrNone(new) THEN raise("AssertionError", new)
    ELSE IF ~AllEvents(r.value.events) THEN raise("AssertionError", new)
    ELSE [heap |-> r.heap, state |-> new, outcome |-> "ok",
          events |-> r.value.events]

\* The batch helper: dispatch the changes in order; an exception ends it.
RECURSIVE DispatchAll(_, _, _, _, _)
DispatchAll(fn, h, cur, changes, busy) ==
    IF changes = <<>>
    THEN [heap |-> h, state |-> cur, outcome |-> "ok", events |-> <<>>]
    ELSE LET d == DispatchOnce(fn, h, cur, Head(changes), busy) IN
         IF d.outcome # "ok" THEN d
         ELSE LET rest == DispatchAll(fn, d.heap, d.state, Tail(changes), busy)
              IN [rest EXCEPT !.events = IF rest.outcome = "ok"
                                         THEN d.events \o @ ELSE <<>>]

\* The run on manager 1 can take one more StateChange.
RunOpen ==
    /\ Len(journal) < BatchLen
    /\ journal # <<>> => journal[Len(journal)].outcome = "ok"

\* The next call of the run on manager 1.
DispatchInRun(t, arg) ==
    /\ t = 1
    /\ \A u \in Threads : frame[u].pc = "idle"
    /\ RunOpen
    /\ Enter(t, 1, arg)

\* The batch helper runs on manager 2 with the StateChanges of the run.
ApplyBatch ==
    /\ ctor[2] = "ok"
    /\ \A u \in Threads : frame[u].pc = "idle"
    /\ journal # <<>> /\ ~RunOpen
    /\ \E b \in {DispatchAll(state_transition[2], heap, current_state[2],
                             [i \in 1 .. Len(journal) |->
                                 journal[i].state_change],
                             Here)} :
          /\ UNCHANGED <<ctor, state_transition, journal>>
          /\ Store(b.heap, [current_state EXCEPT ![2] = b.state],
                   [frame EXCEPT ![2] =
                      [IdleFrame EXCEPT !.pc = "batch_done", !.mgr = 2,
                                        !.pre = current_state[2],
                                        !.pre_value =
                                            ValueOf(heap, current_state[2]),
                                        !.outcome = b.outcome,
                                        !.returned = b.events]],
                   observed, initial)

\* The caller has the result of the batch; the next run starts.
FinishBatch ==
    /\ frame[2].pc = "batch_done"
    /\ journal' = <<>>
    /\ UNCHANGED <<ctor, state_transition>>
    /\ Store(heap, current_state, [frame EXCEPT ![2] = IdleFrame], observed,
             initial)

NextBatch ==
    \/ ConstructManager
    \/ ConstructReplica
    \/ \E t \in Threads, arg \in StateChanges : DispatchInRun(t, arg)
    \/ \E t \in Threads : CopyState(t)
    \/ \E t \in Threads : CallTransition(t)
    \/ \E t \in Threads : AssertIteration(t)
    \/ \E t \in Threads : Commit(t)
    \/ \E t \in Threads : AssertState(t)
    \/ \E t \in Threads : AssertEvents(t)
    \/ \E t \in Threads : ReturnEvents(t)
    \/ \E t \in Threads : Complete(t)
    \/ ApplyBatch
    \/ FinishBatch

SpecBatch == Init /\ [][NextBatch]_vars

\* ------------------------------------------------------------ the claims

\* The calls that have ended and whose result the caller is about to take.
Ended == {t \in Threads : frame[t].pc = "done"}

\* The transition function was invoked and returned (it did not raise).
Produced(f) ==
    f.invoked = 1 /\ f.outcome \notin {"TransitionError", "TypeError"}

\* An Iteration that meets the postcondition: the next state is a State or
\* absent and every element of the event sequence is an Event.
ValidIteration(it) ==
    /\ it.is_iteration
    /\ it.new_state.tag \in {"State", "None"}
    /\ \A i \in 1 .. Len(it.events) : it.events[i] \in Events

\* An Iteration that violates the postcondition.
BadIteration(it) == it.is_iteration /\ ~ValidIteration(it)

\* The caller of manager 1 kept to the contract of the constructor: the
\* initial state is a State or absent.
WellConstructed == initial.ref.tag \in {"State", "None"}

\* C1 (as stated): when the returned Iteration violates the postcondition,
\* dispatch fails with an AssertionError and current_state is equal to the
\* value it had immediately before the call.
C1_NoPartialCommit ==
    \A t \in Ended :
        LET f == frame[t] IN
        (Produced(f) /\ BadIteration(f.iteration)) =>
            /\ f.outcome = "AssertionError"
            /\ ValueOf(heap, current_state[f.mgr]) = f.pre_value

\* C2: dispatching an argument that is no StateChange fails with an
\* AssertionError, the transition function is not invoked, and current_state
\* is left as it was (the same object, with the same content).
C2_NonStateChangeRejected ==
    \A t \in Ended :
        LET f == frame[t] IN
        f.state_change \notin StateChanges =>
            /\ f.outcome = "AssertionError"
            /\ f.invoked = 0
            /\ f.writes = 0
            /\ current_state[f.mgr] = f.pre
            /\ ValueOf(heap, current_state[f.mgr]) = f.pre_value

\* C2 witness: a non-StateChange was dispatched on a manager holding a State.
C2_Witness ==
    \E t \in Ended :
        /\ frame[t].state_change \notin StateChanges
        /\ frame[t].pre.tag = "State"
        /\ frame[t].outcome = "AssertionError"

\* C3: an output of the transition function that is no Iteration, or whose
\* next state is neither None nor a State, or one of whose events is no Event,
\* makes dispatch fail with an AssertionError, and no events are returned.
C3_BadOutputRejected ==
    \A t \in Ended :
        LET f == frame[t] IN
        (Produced(f) /\ ~ValidIteration(f.iteration)) =>
            /\ f.outcome = "AssertionError"
            /\ f.returned = <<>>

\* C3 witness: the transition function returned a State and an event sequence
\* holding a non-Event, and the call failed.
C3_Witness ==
    \E t \in Ended :
        /\ Produced(frame[t])
        /\ frame[t].iteration.is_iteration
        /\ frame[t].iteration.new_state.tag = "State"
        /\ \E i \in 1 .. Len(frame[t].iteration.events) :
              frame[t].iteration.events[i] \notin Events
        /\ frame[t].outcome = "AssertionError"

\* C4: when a StateChange is dispatched and the transition function returns a
\* valid Iteration, the call succeeds, current_state is the Iteration's next
\* state and the events returned are the Iteration's events, in order.
C4_SuccessCommits ==
    \A t \in Ended :
        LET f == frame[t] IN
        (f.state_change \in StateChanges /\ Produced(f)
         /\ ValidIteration(f.iteration)) =>
            /\ f.outcome = "ok"
            /\ current_state[f.mgr] = f.iteration.new_state
            /\ f.returned = f.iteration.events

\* C4 witness: a call succeeded with a new State object, different in content
\* from the previous one, and two events.
C4_Witness ==
    \E t \in Ended :
        /\ frame[t].outcome = "ok"
        /\ frame[t].iteration.new_state.tag = "State"
        /\ ValueOf(heap, current_state[frame[t].mgr]) # frame[t].pre_value
        /\ frame[t].returned = <<"EvReceived", "EvApplied">>

\* No dispatch call on manager m is between its first and its last statement.
Quiescent(m) ==
    \A t \in Threads : frame[t].mgr = m => frame[t].pc = "done"

\* C5 (as stated): a manager constructed with a State or with None holds a
\* State or None in current_state after any sequence of dispatch calls,
\* failed calls included.
C5_StateOrAbsent ==
    WellConstructed =>
        \A m \in Managers :
            (ctor[m] = "ok" /\ Quiescent(m)) =>
                current_state[m].tag \in {"State", "None"}

\* C6: the constructor fails with a ValueError exactly when state_transition
\* is not callable, and then there is no manager: no attribute is set and no
\* dispatch runs on it.  With a callable it succeeds whatever the initial
\* state is, and registers the function.
C6_ConstructionValidation ==
    /\ initial.fn \in NonCallables =>
          /\ ctor[1] = "ValueError"
          /\ state_transition[1] = "unset"
          /\ \A t \in Threads : frame[t].mgr # 1
    /\ initial.fn \in Callables =>
          /\ ctor[1] = "ok"
          /\ state_transition[1] = initial.fn
          /\ \A t \in Threads :
                frame[t].mgr = 1 => frame[t].outcome # "TypeError"

\* C6 witness: a construction with a non-callable has failed.
C6_Witness == initial.fn \in NonCallables /\ ctor[1] = "ValueError"

\* C7: manager 2, constructed with the function and an initial state equal to
\* those of manager 1 and fed the same arguments in the same order, agrees
\* with manager 1 after every call: same outcome (success or the same
\* failure), same events returned, equal current_state.
C7_ReplayDeterminism ==
    /\ \A t \in Ended :
          frame[t].mgr = 2 => Record(frame[t]) = Head(journal)
    /\ (ctor[2] = "ok" /\ journal = <<>> /\ \A t \in Threads : frame[t].mgr = 0)
          => ValueOf(heap, current_state[1]) = ValueOf(heap, current_state[2])

\* C7 witness: manager 2 has replayed a call that changed the state of
\* manager 1, from an initial State object both were constructed with.
C7_Witness ==
    \E t \in Ended :
        /\ frame[t].mgr = 2
        /\ frame[t].outcome = "ok"
        /\ frame[t].pre_value # ValueOf(heap, current_state[2])
        /\ initial.ref.tag = "State"

\* What C8 says of a call that has ended: an Iteration with an absent next
\* state and valid events makes the call succeed and leaves current_state
\* absent; a call on an absent manager invokes the transition function once,
\* with (None, the change dispatched), and when that returns a valid Iteration
\* with a State the call succeeds and current_state is that State.
AbsenceHandled ==
    \A t \in Ended :
        LET f == frame[t]
            it == f.iteration
        IN
        /\ (f.state_change \in StateChanges /\ Produced(f)
            /\ ValidIteration(it) /\ it.new_state = None) =>
               (f.outcome = "ok" /\ current_state[f.mgr] = None)
        /\ (f.state_change \in StateChanges /\ f.pre = None) =>
               /\ f.invoked = 1
               /\ f.invoked_with = [state |-> None, change |-> f.state_change]
               /\ (Produced(f) /\ ValidIteration(it)
                   /\ it.new_state.tag = "State") =>
                      (f.outcome = "ok" /\ current_state[f.mgr] = it.new_state)

\* What C8 says of a step: an absent current_state stays absent in every step
\* but the commit (line 98) of a dispatch call on that manager.
AbsentUntilCommit ==
    \A m \in Managers :
        (ctor[m] = "ok" /\ current_state[m] = None /\ current_state'[m] # None)
            => \E t \in Threads :
                  /\ frame[t].mgr = m
                  /\ frame[t].pc = "commit"
                  /\ frame'[t].pc = "assert_state"

\* C8: absence handling.  A transition to an absent next state succeeds and
\* current_state reads as absent until the next commit; dispatch on an absent
\* manager is not rejected by the engine, the transition function gets
\* (None, change), and a State it returns becomes current_state.
C8_AbsenceHandling == [](AbsenceHandled) /\ [][AbsentUntilCommit]_vars

\* C8 witness: a call on an absent manager has re-seeded a State.
C8_Witness ==
    \E t \in Ended :
        /\ frame[t].pre = None
        /\ frame[t].invoked_with.state = None
        /\ frame[t].outcome = "ok"
        /\ current_state[frame[t].mgr].tag = "State"
        /\ observed.mgr = frame[t].mgr
        /\ observed.ref = None

\* C9 (as stated): when the transition function returns an Iteration with the
\* state it was given, unchanged, and no events, dispatch returns an empty
\* event sequence and current_state is value-equal to what it was before.
C9_UnknownChangeNoOp ==
    WellConstructed =>
        \A t \in Ended :
            LET f == frame[t] IN
            (Produced(f)
             /\ f.iteration = Iteration(f.invoked_with.state, <<>>)
             /\ ValueOf(heap, f.invoked_with.state) = f.pre_value) =>
                /\ f.outcome = "ok"
                /\ f.returned = <<>>
                /\ ValueOf(heap, current_state[f.mgr]) = f.pre_value

\* C10: under the single-writer model a dispatch call writes current_state at
\* most once: before the commit current_state is the object it was when the
\* call started, and what an observer read during the call is either that
\* object (with its content of then) or what current_state is when the call
\* has ended.
C10_SingleWrite ==
    \A t \in Threads :
        LET f == frame[t] IN
        f.mgr # 0 =>
            /\ f.writes <= 1
            /\ f.pc \in {"copy", "call", "assert_iteration", "commit"} =>
                  /\ f.writes = 0
                  /\ current_state[f.mgr] = f.pre
                  /\ ValueOf(heap, current_state[f.mgr]) = f.pre_value
            /\ (f.pc = "done" /\ observed.during = t) =>
                  /\ observed.ref \in {f.pre, current_state[f.mgr]}
                  /\ ValueOf(heap, observed.ref) \in
                        {f.pre_value, ValueOf(heap, current_state[f.mgr])}

\* C10 witness: an observer read the previous state while a call that then
\* committed another state was under way.
C10_Witness ==
    \E t \in Ended :
        /\ observed.during = t
        /\ observed.ref = frame[t].pre
        /\ current_state[frame[t].mgr] # frame[t].pre
        /\ ValueOf(heap, current_state[frame[t].mgr]) # frame[t].pre_value
        /\ frame[t].writes = 1

\* C11 (as stated): what a reader or the caller holds is a snapshot, so a step
\* in which no statement of dispatch and no constructor runs (a reader or the
\* caller mutating the object it holds) leaves the value of every manager's
\* current_state as it was.
C11_NoExternalMutation ==
    [][UNCHANGED <<frame, ctor>> =>
          \A m \in Managers :
              ValueOf(heap', current_state'[m]) = ValueOf(heap, current_state[m])
      ]_vars

\* The events of the calls recorded in journal entries i .. Len, concatenated.
RECURSIVE EventsFrom(_)
EventsFrom(i) ==
    IF i > Len(journal) THEN <<>> ELSE journal[i].returned \o EventsFrom(i + 1)

\* C12: the batch helper applied to [c1, .., cn] on manager 2 ends as the
\* one-by-one dispatch of c1, .., cn on manager 1 did: equal current_state,
\* same outcome, and the same concatenated events when no call raised.
C12_SequentialComposition ==
    frame[2].pc = "batch_done" =>
        /\ ValueOf(heap, current_state[2]) =
              journal[Len(journal)].current_state
        /\ ValueOf(heap, current_state[2]) = ValueOf(heap, current_state[1])
        /\ frame[2].outcome = journal[Len(journal)].outcome
        /\ frame[2].outcome = "ok" => frame[2].returned = EventsFrom(1)

\* C12 witness: a batch of two StateChanges that both changed the state and
\* produced events has been applied.
C12_Witness ==
    /\ frame[2].pc = "batch_done"
    /\ frame[2].outcome = "ok"
    /\ Len(journal) >= 2
    /\ Len(frame[2].returned) >= 3
    /\ journal[1].current_state # journal[2].current_state
    /\ journal[1].current_state # frame[2].pre_value

\* The calls on manager 1 that are past their first statement.
Running == {t \in Threads : frame[t].mgr = 1 /\ frame[t].pc # "done"}
\* The calls whose transition function has returned and that have not ended.
AfterCall ==
    {t \in Running : frame[t].pc \notin {"copy", "call"}}

\* C13: the state handed to the transition function is a copy, a different
\* object with the content of current_state; the object that was current when
\* the call began keeps its value throughout the call, whatever the function
\* does to its argument.
C13_CopyBeforeMutate ==
    \A t \in Threads :
        LET f == frame[t] IN
        (f.mgr # 0 /\ f.pre.tag = "State") =>
            /\ ValueOf(heap, f.pre) = f.pre_value
            /\ f.pc = "call" =>
                  /\ f.next_state.tag = "State"
                  /\ f.next_state # f.pre
                  /\ ValueOf(heap, f.next_state) = f.pre_value
            /\ f.invoked = 1 => f.invoked_with.state # f.pre

\* C13 witness: the function has mutated the State it was given, and the State
\* that was current before the call still has its value.
C13_Witness ==
    \E t \in Ended :
        /\ frame[t].invoked = 1
        /\ frame[t].pre.tag = "State"
        /\ frame[t].invoked_with.state.tag = "State"
        /\ ValueOf(heap, frame[t].invoked_with.state) # frame[t].pre_value
        /\ ValueOf(heap, frame[t].pre) = frame[t].pre_value

\* C14: a call of dispatch with a StateChange invokes the transition function
\* exactly once, with the copy of the current_state the call began with and
\* with the very StateChange it was given; calls run one at a time, and the
\* state a call begins with is the state the call before it left.
C14_ExactlyOnceInOrder ==
    \A t \in Threads :
        LET f == frame[t] IN
        f.mgr = 1 =>
            /\ ~f.raced
            /\ f.pc \in {"copy", "call"} => f.invoked = 0
            /\ f.pc = "call" => ValueOf(heap, f.next_state) = f.pre_value
            /\ t \in AfterCall =>
                  /\ f.invoked = 1
                  /\ f.invoked_with.state = f.next_state
                  /\ f.invoked_with.change = f.state_change
            /\ (t \in Ended /\ f.state_change \in StateChanges) =>
                  /\ f.invoked = 1
                  /\ f.invoked_with.change = f.state_change
            /\ (t \in Running /\ journal # <<>>) =>
                  f.pre_value = journal[Len(journal)].current_state

\* C14 witness: the second call of a run has invoked the function on a State
\* that the first call had changed.
C14_Witness ==
    \E t \in AfterCall :
        /\ Len(journal) = 1
        /\ journal[1].returned # <<>>
        /\ frame[t].pre.tag = "State"
        /\ frame[t].pre_value.val # 0
        /\ frame[t].invoked = 1

\* C15: when the transition function raises, the exception reaches the
\* caller, no events are returned and nothing was committed: current_state is
\* the object it was before the call, with the value it had.
C15_RaiseLeavesState ==
    \A t \in Ended :
        LET f == frame[t] IN
        (f.state_change = "Raise" /\ ctor[f.mgr] = "ok") =>
            /\ f.invoked = 1
            /\ f.outcome = "TransitionError"
            /\ f.returned = <<>>
            /\ f.writes = 0
            /\ current_state[f.mgr] = f.pre
            /\ ValueOf(heap, current_state[f.mgr]) = f.pre_value

\* C15 witness: the function raised after it had mutated its argument.
C15_Witness ==
    \E t \in Ended :
        /\ frame[t].outcome = "TransitionError"
        /\ frame[t].invoked_with.state.tag = "State"
        /\ ValueOf(heap, frame[t].invoked_with.state) # frame[t].pre_value

\* C16: when the transition function returns something that is no Iteration,
\* dispatch fails with an AssertionError before any commit: current_state is
\* the object it was before the call, with the value it had.
C16_NonIterationRejected ==
    \A t \in Ended :
        LET f == frame[t] IN
        (Produced(f) /\ ~f.iteration.is_iteration) =>
            /\ f.outcome = "AssertionError"
            /\ f.returned = <<>>
            /\ f.writes = 0
            /\ current_state[f.mgr] = f.pre
            /\ ValueOf(heap, current_state[f.mgr]) = f.pre_value

\* C16 witness: a plain tuple holding a changed State was returned and the
\* call failed.
C16_Witness ==
    \E t \in Ended :
        /\ Produced(frame[t])
        /\ ~frame[t].iteration.is_iteration
        /\ frame[t].iteration.new_state.tag = "State"
        /\ ValueOf(heap, frame[t].iteration.new_state) # frame[t].pre_value
        /\ frame[t].outcome = "AssertionError"

\* Two calls on manager m have ended, t having made its copy while u was
\* between its copy and its commit, and both got a valid Iteration.
Overlapped(t, u, m) ==
    /\ t # u
    /\ t \in Ended /\ u \in Ended
    /\ frame[t].mgr = m /\ frame[u].mgr = m
    /\ frame[t].raced
    /\ Produced(frame[t]) /\ ValidIteration(frame[t].iteration)
    /\ Produced(frame[u]) /\ ValidIteration(frame[u].iteration)

\* What holds of the calls that have overlapped, and of those that were kept
\* apart.
LostUpdate ==
    /\ \A t \in Threads, u \in Threads :
          Overlapped(t, u, 1) =>
              /\ frame[t].outcome = "ok" /\ frame[u].outcome = "ok"
              /\ frame[t].returned = frame[t].iteration.events
              /\ frame[u].returned = frame[u].iteration.events
              /\ frame[t].pre = frame[u].pre
              /\ frame[t].pre_value = frame[u].pre_value
              /\ \E w \in {t, u} :
                    current_state[1] = frame[w].iteration.new_state
              /\ (frame[t].state_change = "Inc" /\ frame[u].state_change = "Inc"
                  /\ frame[t].pre.tag = "State") =>
                    ValueOf(heap, current_state[1]).val =
                        Succ(frame[t].pre_value.val)
    /\ \A t \in Threads :
          frame[t].mgr = 2 =>
              /\ ~frame[t].raced
              /\ frame[t].pc \in {"copy", "call", "assert_iteration", "commit"}
                    => /\ current_state[2] = frame[t].pre
                       /\ ValueOf(heap, current_state[2]) = frame[t].pre_value
    /\ \A t \in Threads, u \in Threads :
          (/\ t # u /\ t \in Ended /\ u \in Ended
           /\ frame[t].mgr = 2 /\ frame[u].mgr = 2
           /\ frame[t].outcome = "ok" /\ frame[u].outcome = "ok") =>
              \E w \in {t, u}, v \in {t, u} :
                  /\ w # v
                  /\ frame[v].pre = frame[w].iteration.new_state
                  /\ current_state[2] = frame[v].iteration.new_state

\* A commit overwrites current_state with the next state of its own call,
\* whatever was committed since the call made its copy.
CommitOverwrites ==
    \A t \in Threads :
        (frame[t].pc = "commit" /\ frame'[t].pc = "assert_state") =>
            current_state'[frame[t].mgr] = frame'[t].iteration.new_state

\* C17: dispatch does not serialize its callers.  When two calls on a manager
\* overlap so that both copy before either commits, both succeed and return
\* their own events, both were computed from the same state, and current_state
\* is the next state of one of them alone, the one that committed later: the
\* other update is lost.  Calls that the callers serialize never overlap, and
\* each commits onto the state it began with.
C17_LostUpdate == [](LostUpdate) /\ [][CommitOverwrites]_vars

\* C17 witness: two overlapping calls that each advance the counter by one
\* have both returned their events, and the counter has advanced by one.
C17_Witness ==
    \E t \in Threads, u \in Threads :
        /\ Overlapped(t, u, 1)
        /\ frame[t].state_change = "Inc" /\ frame[u].state_change = "Inc"
        /\ frame[t].pre.tag = "State"
        /\ frame[t].returned = <<"EvReceived", "EvApplied">>
        /\ frame[u].returned = <<"EvReceived", "EvApplied">>
        /\ ValueOf(heap, current_state[1]).val = Succ(frame[t].pre_value.val)

\* A constructed manager stays constructed with the function it has.
FunctionKept ==
    \A m \in Managers :
        ctor[m] = "ok" =>
            /\ ctor'[m] = "ok"
            /\ state_transition'[m] = state_transition[m]

\* C18: dispatch changes no attribute of the manager other than current_state:
\* after any sequence of calls, failed ones included, the registered transition
\* function is the one the manager was constructed with.
C18_OnlyCurrentStateChanges ==
    /\ [](\A m \in Managers :
             ctor[m] = "ok" => state_transition[m] = initial.fn)
    /\ [][FunctionKept]_vars

\* C18 witness: a call has replaced current_state by a State of another value,
\* and the manager has the function it was constructed with.
C18_Witness ==
    \E t \in Ended :
        /\ frame[t].outcome = "ok"
        /\ frame[t].writes = 1
        /\ frame[t].pre.tag = "State"
        /\ current_state[frame[t].mgr].tag = "State"
        /\ ValueOf(heap, current_state[frame[t].mgr]) # frame[t].pre_value
        /\ state_transition[frame[t].mgr] = initial.fn
        /\ initial.fn \in Callables

====
